---- MODULE Spec2Model ----
(***************************************************************************)
(* A model of icon_maker.py: the two square-fit strategies, the circular   *)
(* mask, and the single-pass pipeline of main() over a file system.        *)
(***************************************************************************)
EXTENDS Integers, Sequences, FiniteSets, TLC

VARIABLES
    arg,        \* the arguments of the pure function under study
    ret,        \* <<its result>>, <<>> before the call
    pc,         \* position of main() in its pipeline
    argv,       \* the command line
    env,        \* what the run finds: the source file, the I/O fault schedule
    args,       \* the argparse namespace
    dirMade,    \* os.makedirs(outdir) was called by this run
    srcOpened,  \* Image.open(input) was called by this run
    bg_rgb,     \* what parse_bg returned: <<>> for None, else <<r, g, b>>
    master,     \* master_square: its pixel dimensions, <<>> before it exists
    i,          \* index into args.sizes of the loop of main()
    resampled,  \* the size values handed to master_square.resize, in order
    outputs,    \* the list `outputs` of main()
    files,      \* the output directory: file name -> content
    writes,     \* the file names this run wrote, in order
    stdout,     \* what the run printed on stdout
    stderr,     \* what the run printed on stderr
    status      \* exit status, -1 while running

vars == <<arg, ret, pc, argv, env, args, dirMade, srcOpened, bg_rgb, master, i,
          resampled, outputs, files, writes, stdout, stderr, status>>

mainVars == <<pc, argv, env, args, dirMade, srcOpened, bg_rgb, master, i,
              resampled, outputs, files, writes, stdout, stderr, status>>

(***************************************************************************)
(* IEEE-754 binary64 arithmetic, as far as square_contain uses it.  A      *)
(* positive double is [m |-> bits, e |-> exponent]: m is the 53-bit        *)
(* significand, most significant bit first, and the value is m * 2^e.      *)
(***************************************************************************)
MantBits == 53

\* arithmetic on the digits is done LimbBits at a time, so that every
\* intermediate value stays within 32 bits
LimbBits == 13
Limb == 2 ^ LimbBits
DivLimbs == 6

RECURSIVE BitsOf(_)
\* binary digits of a natural number, most significant first; <<>> for 0
BitsOf(n) == IF n = 0 THEN <<>> ELSE Append(BitsOf(n \div 2), n % 2)

\* the LimbBits binary digits of a limb v, most significant first
LimbDigits(v) == [k \in 1..LimbBits |-> (v \div 2 ^ (LimbBits - k)) % 2]

RECURSIVE ValOf(_)
\* the natural number a digit sequence denotes
ValOf(b) ==
    IF Len(b) = 0 THEN 0
    ELSE IF Len(b) <= LimbBits
         THEN 2 * ValOf(SubSeq(b, 1, Len(b) - 1)) + b[Len(b)]
         ELSE Limb * ValOf(SubSeq(b, 1, Len(b) - LimbBits))
              + ValOf(SubSeq(b, Len(b) - LimbBits + 1, Len(b)))

RECURSIVE FracBits(_, _, _)
\* the next n limbs of quotient digits of r / d (0 <= r < d) and the
\* remainder left
FracBits(r, d, n) ==
    IF n = 0 THEN [bits |-> <<>>, rem |-> r]
    ELSE LET q    == (r * Limb) \div d
             rest == FracBits((r * Limb) % d, d, n - 1)
         IN  [bits |-> LimbDigits(q) \o rest.bits, rem |-> rest.rem]

\* the digits from the first 1 on
Normalize(b) ==
    LET first == CHOOSE k \in 1..Len(b) :
                    b[k] = 1 /\ \A j \in 1..(k - 1) : b[j] = 0
    IN  SubSeq(b, first, Len(b))

RECURSIVE Shl(_, _)
Shl(r, n) == IF n = 0 THEN r ELSE Shl(2 * r, n - 1)

\* digit sequence + 1, same length (b holds a 0)
Incr(b) ==
    LET last == CHOOSE k \in 1..Len(b) :
                    b[k] = 0 /\ \A j \in (k + 1)..Len(b) : b[j] = 1
    IN  [k \in 1..Len(b) |-> IF k < last THEN b[k]
                             ELSE IF k = last THEN 1 ELSE 0]

AllOnes(b) == \A k \in 1..Len(b) : b[k] = 1

\* round-half-to-even of the digits `long` (>= 53 of them, leading 1) with
\* `sticky` telling whether anything non-zero lies beyond them; e is the
\* exponent of the last digit of `long`
RoundEven(long, sticky, e) ==
    LET keep  == SubSeq(long, 1, MantBits)
        tail  == SubSeq(long, MantBits + 1, Len(long))
        e53   == e + Len(tail)
        guard == IF Len(tail) = 0 THEN 0 ELSE tail[1]
        low   == sticky \/ \E k \in 2..Len(tail) : tail[k] = 1
        up    == guard = 1 /\ (low \/ keep[MantBits] = 1)
    IN  IF ~up THEN [m |-> keep, e |-> e53]
        ELSE IF AllOnes(keep)
             THEN [m |-> [k \in 1..MantBits |-> IF k = 1 THEN 1 ELSE 0],
                   e |-> e53 + 1]
             ELSE [m |-> Incr(keep), e |-> e53]

\* a / b for Python ints a, b >= 1: the correctly rounded double
TrueDiv(a, b) ==
    LET f == FracBits(a % b, b, DivLimbs)
    IN  RoundEven(Normalize(BitsOf(a \div b) \o f.bits), f.rem # 0,
                  -(DivLimbs * LimbBits))

\* lexicographic order on digit sequences of equal length
SeqLess(a, b) ==
    \E k \in 1..Len(a) : a[k] < b[k] /\ \A j \in 1..(k - 1) : a[j] = b[j]

FloatLess(x, y) == x.e < y.e \/ (x.e = y.e /\ SeqLess(x.m, y.m))

\* Python's min(x, y): y only when it is smaller
FloatMin(x, y) == IF FloatLess(y, x) THEN y ELSE x

RECURSIVE MulBits(_, _, _)
\* digits of n * (value of b) + carry, a limb of b at a time from its end
MulBits(n, b, carry) ==
    IF Len(b) = 0 THEN BitsOf(carry)
    ELSE LET cut == IF Len(b) > LimbBits THEN Len(b) - LimbBits ELSE 0
             t   == n * ValOf(SubSeq(b, cut + 1, Len(b))) + carry
             w   == Len(b) - cut
         IN  MulBits(n, SubSeq(b, 1, cut), t \div 2 ^ w)
             \o [k \in 1..w |-> (t \div 2 ^ (w - k)) % 2]

\* n * x for a Python int n >= 1 and a double x: n converts exactly, the
\* product is rounded to the nearest double
IntTimesFloat(n, x) == RoundEven(MulBits(n, x.m, 0), FALSE, x.e)

\* int(x): truncation towards zero (here x > 0 and below 2^31)
FloatToInt(x) ==
    IF x.e >= 0 THEN Shl(ValOf(x.m), x.e)
    ELSE IF -x.e >= MantBits THEN 0
    ELSE ValOf(SubSeq(x.m, 1, MantBits + x.e))

(***************************************************************************)
(* square_contain(im, size, bg_rgb)                                        *)
(***************************************************************************)
\* Image.resize / Image.new accept a size only when both sides are >= 1
ValidDims(w, h) == w >= 1 /\ h >= 1

\* the geometry square_contain computes for a w x h source: the scaled size
\* (nw, nh), the canvas, the paste offset (x, y); ok is FALSE when
\* im.resize((nw, nh)) raises
SquareContain(w, h, size) ==
    LET scale == FloatMin(TrueDiv(size, w), TrueDiv(size, h))
        nw    == FloatToInt(IntTimesFloat(w, scale))
        nh    == FloatToInt(IntTimesFloat(h, scale))
    IN  [ok |-> ValidDims(nw, nh),
         nw |-> nw, nh |-> nh,
         cw |-> size, ch |-> size,
         x  |-> (size - nw) \div 2,
         y  |-> (size - nh) \div 2]

(***************************************************************************)
(* square_cover(im)                                                        *)
(***************************************************************************)
Min(a, b) == IF a < b THEN a ELSE b

\* square_cover with the crop box pushed to the far edge instead of centred
SquareCoverFarEdge(w, h) ==
    LET side == Min(w, h)
        x0   == w - side
        y0   == h - side
    IN  [x0 |-> x0, y0 |-> y0, x1 |-> x0 + side, y1 |-> y0 + side,
         w  |-> (x0 + side) - x0, h |-> (y0 + side) - y0]

\* the crop box square_cover takes out of a w x h source, and the size of
\* the bitmap im.crop returns for it
SquareCover(w, h) ==
    LET side == Min(w, h)
        x0   == (w - side) \div 2
        y0   == (h - side) \div 2
    IN  [x0 |-> x0, y0 |-> y0, x1 |-> x0 + side, y1 |-> y0 + side,
         w  |-> (x0 + side) - x0, h |-> (y0 + side) - y0]

(***************************************************************************)
(* make_round(im)                                                          *)
(***************************************************************************)
Pos(w, h) == (0..(w - 1)) \X (0..(h - 1))

Transparent == <<0, 0, 0, 0>>

\* ImageDraw.ellipse(xy): the ellipse inside the bounding box whose corner
\* pixels are (x0, y0) and (x1, y1), both corners included; a pixel is
\* filled when its centre lies in it
EllipseCovers(x0, y0, x1, y1, x, y) ==
    LET bx == x1 - x0 + 1
        by == y1 - y0 + 1
        dx == 2 * x - (x0 + x1)
        dy == 2 * y - (y0 + y1)
    IN  dx * dx * by * by + dy * dy * bx * bx <= bx * bx * by * by

\* mask = Image.new("L", (w, h), 0); d.ellipse((0, 0, w, h), fill=255)
RoundMask(w, h) ==
    [p \in Pos(w, h) |->
        IF EllipseCovers(0, 0, w, h, p[1], p[2]) THEN 255 ELSE 0]

\* Image.paste(im, (0, 0), mask) onto `base`, for a mask of 0s and 255s
Paste(base, im, mask) ==
    [p \in DOMAIN base |-> IF mask[p] = 255 THEN im[p] ELSE base[p]]

\* the bitmap make_round returns for the w x h RGBA bitmap im
MakeRound(im, w, h) ==
    LET mask == RoundMask(w, h)
        out  == [p \in Pos(w, h) |-> Transparent]
    IN  [w |-> w, h |-> h, px |-> Paste(out, im, mask)]

(***************************************************************************)
(* The command line, the file system and the library calls main() makes.   *)
(***************************************************************************)
MaxSizes == 2

\* the side of master_square
MasterSize == 1024

DefaultOutdir == "./icons_out"
DefaultSizes == <<16, 32, 48, 128>>
DefaultBg == "transparent"
BundleName == "icons_bundle.zip"

\* os.path.join(outdir, name) and os.path.basename of such a path
Join(dir, name) == <<dir, name>>
Basename(path) == path[2]

\* the round icon saved under the square icon's name
RoundNameOverSquare(s) == "icon" \o ToString(s) \o ".png"

\* f"icon{s}.png" and f"icon{s}_round.png"
IconName(s) == "icon" \o ToString(s) \o ".png"
RoundName(s) == "icon" \o ToString(s) \o "_round.png"

\* the source files a run may be pointed at, with their pixel sizes;
\* "missing.png" cannot be opened
Inputs == {"missing.png", "sq.png", "wide.png"}
Readable(input) == input \in {"sq.png", "wide.png"}
SourceDims(input) == IF input = "sq.png" THEN <<49, 49>> ELSE <<3000, 1>>

SizeValues == {-8, 0, 16, 32}
BgValues == {"TRANSPARENT", "#0f172a", "notacolor"}
ZipFlags == {<<>>, <<"--zip">>, <<"--no-zip">>, <<"--zip", "--no-zip">>}

SizeLists ==
    UNION {[1..n -> SizeValues] : n \in 0..MaxSizes} \cup {<<16, 32, 48>>}

\* a command line: an option that is not given is "absent" (sizes, zip: <<>>)
CommandLines ==
    [help : BOOLEAN, input : {"absent"} \cup Inputs, sizes : SizeLists,
     mode : {"absent", "cover"}, bg : {"absent"} \cup BgValues,
     round : BOOLEAN, zip : ZipFlags]

\* len(sys.argv) == 1
NoArguments(cl) ==
    /\ ~cl.help /\ cl.input = "absent" /\ cl.sizes = <<>>
    /\ cl.mode = "absent" /\ cl.bg = "absent" /\ ~cl.round /\ cl.zip = <<>>

\* str.lower() on the background strings of the model
Lower(str) == IF str = "TRANSPARENT" THEN "transparent" ELSE str

\* ImageColor.getrgb: <<TRUE, rgb>>, or <<FALSE>> where it raises ValueError
GetRgb(str) ==
    CASE str = "#0f172a" -> <<TRUE, <<15, 23, 42>>>>
      [] str = "red"     -> <<TRUE, <<255, 0, 0>>>>
      [] OTHER           -> <<FALSE>>

\* parse_bg: [ok, rgb] with rgb = <<>> for None; ok = FALSE where it raises
\* SystemExit
ParseBgResult(color_str) ==
    IF Lower(color_str) = "transparent" THEN [ok |-> TRUE, rgb |-> <<>>]
    ELSE LET c == GetRgb(color_str)
         IN  IF c[1] THEN [ok |-> TRUE, rgb |-> c[2]]
             ELSE [ok |-> FALSE, rgb |-> <<>>]

\* the files an earlier run may have left in the output directory
OldIcon == [kind |-> "png", w |-> 16, h |-> 16, round |-> FALSE,
            src |-> "old.png"]
OldBundle == [kind |-> "zip",
              members |-> <<[name |-> "icon16.png", data |-> OldIcon]>>]
NoFiles == [n \in {} |-> OldIcon]
OldFiles == ("icon16.png" :> OldIcon) @@ ("icon64.png" :> OldIcon)
            @@ (BundleName :> OldBundle)

\* what a failed save or archive write may leave behind
Partial == [kind |-> "partial"]

\* the PNG that icon.save writes for an s x s icon
IconFile(w, h, round, src) ==
    [kind |-> "png", w |-> w, h |-> h, round |-> round, src |-> src]

\* the namespace with the archive flag defaulting to off
NamespaceZipOff(cl) ==
    [input    |-> cl.input,
     outdir   |-> DefaultOutdir,
     sizes    |-> IF cl.sizes = <<>> THEN DefaultSizes ELSE cl.sizes,
     mode     |-> IF cl.mode = "absent" THEN "contain" ELSE cl.mode,
     bg       |-> IF cl.bg = "absent" THEN DefaultBg ELSE cl.bg,
     round    |-> cl.round,
     make_zip |-> IF cl.zip = <<>> THEN FALSE
                  ELSE cl.zip[Len(cl.zip)] = "--zip"]

\* the namespace argparse builds from a command line it accepts
Namespace(cl) ==
    [input    |-> cl.input,
     outdir   |-> DefaultOutdir,
     sizes    |-> IF cl.sizes = <<>> THEN DefaultSizes ELSE cl.sizes,
     mode     |-> IF cl.mode = "absent" THEN "contain" ELSE cl.mode,
     bg       |-> IF cl.bg = "absent" THEN DefaultBg ELSE cl.bg,
     round    |-> cl.round,
     make_zip |-> IF cl.zip = <<>> THEN TRUE
                  ELSE cl.zip[Len(cl.zip)] = "--zip"]

(***************************************************************************)
(* main()                                                                  *)
(***************************************************************************)
Running == status = -1

Init ==
    /\ arg = <<>>
    /\ ret = <<>>
    /\ pc = "parse_args"
    /\ argv \in CommandLines
    /\ env \in [files0 : {NoFiles, OldFiles}]
    /\ args = <<>>
    /\ dirMade = FALSE
    /\ srcOpened = FALSE
    /\ bg_rgb = <<>>
    /\ master = <<>>
    /\ i = 0
    /\ resampled = <<>>
    /\ outputs = <<>>
    /\ files = env.files0
    /\ writes = <<>>
    /\ stdout = <<>>
    /\ stderr = <<>>
    /\ status = -1

\* sys.exit / SystemExit / an uncaught exception: the process ends here
Exit(code, out, err) ==
    /\ status' = code
    /\ stdout' = stdout \o out
    /\ stderr' = stderr \o err

\* parse_args with -i/--input not required
ParseArgsInputOptional ==
    /\ Running /\ pc = "parse_args"
    /\ IF NoArguments(argv)
       THEN /\ Exit(1, <<>>, <<"usage", "help">>)
            /\ UNCHANGED <<pc, args>>
       ELSE IF argv.help
       THEN /\ Exit(0, <<"usage", "help">>, <<>>)
            /\ UNCHANGED <<pc, args>>
       ELSE /\ args' = Namespace(argv)
            /\ pc' = "makedirs"
            /\ UNCHANGED <<status, stdout, stderr>>
    /\ UNCHANGED <<arg, ret, argv, env, dirMade, srcOpened, bg_rgb, master, i,
                   resampled, outputs, files, writes>>

\* args = parse_args()
ParseArgs ==
    /\ Running /\ pc = "parse_args"
    /\ IF NoArguments(argv)
       THEN /\ Exit(1, <<>>, <<"usage", "help">>)
            /\ UNCHANGED <<pc, args>>
       ELSE IF argv.help
       THEN /\ Exit(0, <<"usage", "help">>, <<>>)
            /\ UNCHANGED <<pc, args>>
       ELSE IF argv.input = "absent"
       THEN /\ Exit(2, <<>>, <<"usage", "error: -i/--input required">>)
            /\ UNCHANGED <<pc, args>>
       ELSE /\ args' = Namespace(argv)
            /\ pc' = "makedirs"
            /\ UNCHANGED <<status, stdout, stderr>>
    /\ UNCHANGED <<arg, ret, argv, env, dirMade, srcOpened, bg_rgb, master, i,
                   resampled, outputs, files, writes>>

\* os.makedirs(args.outdir, exist_ok=True)
MakeDirs ==
    /\ Running /\ pc = "makedirs"
    /\ dirMade' = TRUE
    /\ pc' = "open"
    /\ UNCHANGED <<arg, ret, argv, env, args, srcOpened, bg_rgb, master, i,
                   resampled, outputs, files, writes, stdout, stderr, status>>

\* src = Image.open(args.input)
OpenSource ==
    /\ Running /\ pc = "open"
    /\ IF Readable(args.input)
       THEN /\ srcOpened' = TRUE
            /\ pc' = "parse_bg"
            /\ UNCHANGED <<status, stdout, stderr>>
       ELSE /\ Exit(1, <<>>, <<"Traceback: FileNotFoundError">>)
            /\ UNCHANGED <<srcOpened, pc>>
    /\ UNCHANGED <<arg, ret, argv, env, args, dirMade, bg_rgb, master, i,
                   resampled, outputs, files, writes>>

\* bg_rgb = parse_bg(args.bg)
ParseBg ==
    /\ Running /\ pc = "parse_bg"
    /\ LET r == ParseBgResult(args.bg)
       IN  IF r.ok
           THEN /\ bg_rgb' = r.rgb
                /\ pc' = "master"
                /\ UNCHANGED <<status, stdout, stderr>>
           ELSE /\ Exit(1, <<>>, <<"Invalid --bg color: " \o args.bg>>)
                /\ UNCHANGED <<bg_rgb, pc>>
    /\ UNCHANGED <<arg, ret, argv, env, args, dirMade, srcOpened, master, i,
                   resampled, outputs, files, writes>>

\* master_square = square_cover(src).resize((1024, 1024)) or
\*                 square_contain(src, 1024, bg_rgb)
MakeMaster ==
    /\ Running /\ pc = "master"
    /\ LET d == SourceDims(args.input)
           c == IF args.mode = "cover"
                THEN [ok |-> ValidDims(SquareCover(d[1], d[2]).w,
                                       SquareCover(d[1], d[2]).h),
                      w |-> MasterSize, h |-> MasterSize]
                ELSE LET r == SquareContain(d[1], d[2], MasterSize)
                     IN  [ok |-> r.ok, w |-> r.cw, h |-> r.ch]
       IN  IF c.ok
           THEN /\ master' = [w |-> c.w, h |-> c.h, bg |-> bg_rgb]
                /\ i' = 1
                /\ pc' = "loop"
                /\ UNCHANGED <<status, stdout, stderr>>
           ELSE /\ Exit(1, <<>>, <<"Traceback: ValueError">>)
                /\ UNCHANGED <<master, i, pc>>
    /\ UNCHANGED <<arg, ret, argv, env, args, dirMade, srcOpened, bg_rgb,
                   resampled, outputs, files, writes>>

\* the first half of a loop iteration with a failed resize caught and the
\* size skipped
SaveSquareSkipsFailure ==
    /\ Running /\ pc = "loop" /\ i <= Len(args.sizes)
    /\ LET s == args.sizes[i]
       IN  /\ resampled' = Append(resampled, s)
           /\ IF ValidDims(s, s)
              THEN /\ files' = (IconName(s) :>
                                  IconFile(s, s, FALSE, args.input)) @@ files
                   /\ writes' = Append(writes, IconName(s))
                   /\ outputs' =
                         Append(outputs, Join(args.outdir, IconName(s)))
                   /\ IF args.round
                      THEN pc' = "round" /\ i' = i
                      ELSE pc' = "loop" /\ i' = i + 1
              ELSE /\ pc' = "loop" /\ i' = i + 1
                   /\ UNCHANGED <<files, writes, outputs>>
    /\ UNCHANGED <<arg, ret, argv, env, args, dirMade, srcOpened, bg_rgb,
                   master, status, stdout, stderr>>

\* the first half of a loop iteration:
\*   icon_sq = master_square.resize((s, s)); icon_sq.save(path_sq);
\*   outputs.append(path_sq)
SaveSquare ==
    /\ Running /\ pc = "loop" /\ i <= Len(args.sizes)
    /\ LET s == args.sizes[i]
       IN  /\ resampled' = Append(resampled, s)
           /\ IF ValidDims(s, s)
              THEN /\ files' = (IconName(s) :>
                                  IconFile(s, s, FALSE, args.input)) @@ files
                   /\ writes' = Append(writes, IconName(s))
                   /\ outputs' =
                         Append(outputs, Join(args.outdir, IconName(s)))
                   /\ IF args.round
                      THEN pc' = "round" /\ i' = i
                      ELSE pc' = "loop" /\ i' = i + 1
                   /\ UNCHANGED <<status, stdout, stderr>>
              ELSE /\ Exit(1, <<>>, <<"Traceback: ValueError">>)
                   /\ UNCHANGED <<files, writes, outputs, pc, i>>
    /\ UNCHANGED <<arg, ret, argv, env, args, dirMade, srcOpened, bg_rgb,
                   master>>

\* the second half, under args.round:
\*   make_round(icon_sq).save(path_rd); outputs.append(path_rd)
SaveRound ==
    /\ Running /\ pc = "round"
    /\ LET s == args.sizes[i]
       IN  /\ files' = (RoundName(s) :>
                           IconFile(s, s, TRUE, args.input)) @@ files
           /\ writes' = Append(writes, RoundName(s))
           /\ outputs' = Append(outputs, Join(args.outdir, RoundName(s)))
    /\ pc' = "loop"
    /\ i' = i + 1
    /\ UNCHANGED <<arg, ret, argv, env, args, dirMade, srcOpened, bg_rgb,
                   master, resampled, stdout, stderr, status>>

\* the archive zf.write builds from the first n entries of `outputs`, each
\* read back from the output directory
Bundle(n) ==
    [kind    |-> "zip",
     members |-> [k \in 1..n |-> [name |-> Basename(outputs[k]),
                                  data |-> files[Basename(outputs[k])]]]]

\* after the loop: the archive when args.make_zip, and the final print
Archive ==
    /\ Running /\ pc = "loop" /\ i > Len(args.sizes)
    /\ IF args.make_zip
       THEN /\ files' = (BundleName :> Bundle(Len(outputs))) @@ files
            /\ writes' = Append(writes, BundleName)
            /\ Exit(0, <<Join(args.outdir, BundleName)>>, <<>>)
       ELSE /\ Exit(0, <<args.outdir>>, <<>>)
            /\ UNCHANGED <<files, writes>>
    /\ pc' = "done"
    /\ UNCHANGED <<arg, ret, argv, env, args, dirMade, srcOpened, bg_rgb,
                   master, i, resampled, outputs>>

\* an OSError or decode error out of makedirs, Image.open or the master
\* construction: nothing catches it
RaiseBeforeLoop ==
    /\ Running /\ pc \in {"makedirs", "open", "master"}
    /\ Exit(1, <<>>, <<"Traceback">>)
    /\ UNCHANGED <<arg, ret, pc, argv, env, args, dirMade, srcOpened, bg_rgb,
                   master, i, resampled, outputs, files, writes>>

\* an I/O error out of icon.save: the target is untouched or left partial
RaiseInSave ==
    /\ Running
    /\ \/ pc = "loop" /\ i <= Len(args.sizes) /\ ValidDims(args.sizes[i],
                                                           args.sizes[i])
       \/ pc = "round"
    /\ LET name == IF pc = "round" THEN RoundName(args.sizes[i])
                   ELSE IconName(args.sizes[i])
       IN  \/ files' = files
           \/ files' = (name :> Partial) @@ files
    /\ resampled' = IF pc = "loop" THEN Append(resampled, args.sizes[i])
                    ELSE resampled
    /\ Exit(1, <<>>, <<"Traceback">>)
    /\ UNCHANGED <<arg, ret, pc, argv, env, args, dirMade, srcOpened, bg_rgb,
                   master, i, outputs, writes>>

\* an I/O error inside the `with zipfile.ZipFile(...)` block: the archive is
\* not opened at all, or is closed holding the members written so far
RaiseInArchive ==
    /\ Running /\ pc = "loop" /\ i > Len(args.sizes) /\ args.make_zip
    /\ \/ UNCHANGED <<files, writes>>
       \/ \E n \in 0..Len(outputs) :
             /\ n < Len(outputs) \/ n = 0
             /\ files' = (BundleName :> Bundle(n)) @@ files
             /\ writes' = Append(writes, BundleName)
    /\ Exit(1, <<>>, <<"Traceback">>)
    /\ UNCHANGED <<arg, ret, pc, argv, env, args, dirMade, srcOpened, bg_rgb,
                   master, i, resampled, outputs>>

Next ==
    \/ ParseArgs
    \/ MakeDirs
    \/ OpenSource
    \/ ParseBg
    \/ MakeMaster
    \/ SaveSquare
    \/ SaveRound
    \/ Archive
    \/ RaiseBeforeLoop
    \/ RaiseInSave
    \/ RaiseInArchive

Spec == Init /\ [][Next]_vars

(***************************************************************************)
(* Vocabulary of the properties of main()                                  *)
(***************************************************************************)
SeqRange(q) == {q[k] : k \in 1..Len(q)}

\* the names this run wrote, the archive left out
IconWrites == SelectSeq(writes, LAMBDA n : n # BundleName)

PairwiseDistinctPositive(q) ==
    /\ \A k \in 1..Len(q) : q[k] >= 1
    /\ \A j, k \in 1..Len(q) : j # k => q[j] # q[k]

\* the file names the spec announces for a list of sizes
AnnouncedNames(q, round) ==
    {"icon" \o ToString(n) \o ".png" : n \in SeqRange(q)}
    \cup (IF round
          THEN {"icon" \o ToString(n) \o "_round.png" : n \in SeqRange(q)}
          ELSE {})

\* every announced file of size N is an N x N image
AnnouncedDimensions(q, round) ==
    \A n \in SeqRange(q) :
        LET sq == "icon" \o ToString(n) \o ".png"
            rd == "icon" \o ToString(n) \o "_round.png"
        IN  /\ sq \in DOMAIN files
            /\ files[sq].kind = "png" /\ files[sq].w = n /\ files[sq].h = n
            /\ round => /\ rd \in DOMAIN files
                        /\ files[rd].kind = "png"
                        /\ files[rd].w = n /\ files[rd].h = n

\* pc = "done" only after parse_args returned, so args is a namespace there
Completed == pc = "done"

(***************************************************************************)
(* C3                                                                      *)
(***************************************************************************)
\* C3 as stated: a run that completes with n pairwise-distinct positive
\* sizes writes exactly n files without rounding and 2n with it, the
\* announced icon files and nothing else, each N x N.
C3_Original ==
    (Completed /\ PairwiseDistinctPositive(args.sizes)) =>
        /\ Len(writes) = (IF args.round THEN 2 ELSE 1) * Len(args.sizes)
        /\ SeqRange(writes) = AnnouncedNames(args.sizes, args.round)
        /\ AnnouncedDimensions(args.sizes, args.round)

\* C3 amended: a run that completes with n pairwise-distinct positive sizes
\* writes exactly n icon files without rounding and 2n with it, the
\* announced ones and no other icon file, each N x N; the only other file it
\* writes is icons_bundle.zip, and that exactly when the archive flag is on.
C3_IconFilesPerSize ==
    (Completed /\ PairwiseDistinctPositive(args.sizes)) =>
        /\ Len(IconWrites) = (IF args.round THEN 2 ELSE 1) * Len(args.sizes)
        /\ SeqRange(IconWrites) = AnnouncedNames(args.sizes, args.round)
        /\ AnnouncedDimensions(args.sizes, args.round)
        /\ Len(writes) = Len(IconWrites) + (IF args.make_zip THEN 1 ELSE 0)

\* sizes [16, 32, 48] with rounding and without the archive: six files
C3_Witness ==
    /\ Completed
    /\ args.sizes = <<16, 32, 48>> /\ args.round /\ ~args.make_zip
    /\ Len(writes) = 6
    /\ files["icon48_round.png"].w = 48

(***************************************************************************)
(* C4                                                                      *)
(***************************************************************************)
\* C4: a run that completes with the archive flag on, whatever the list of
\* sizes (repeated sizes included), leaves an icons_bundle.zip with as many
\* members as icon files the run generated in the output directory, each
\* member identical to the generated file of its name.
C4_ArchiveMirrorsGeneratedFiles ==
    (Completed /\ args.make_zip) =>
        LET members == files[BundleName].members
        IN  /\ Len(members) = Cardinality(SeqRange(IconWrites))
            /\ \A k \in 1..Len(members) :
                  /\ members[k].name \in SeqRange(IconWrites)
                  /\ members[k].data = files[members[k].name]

(***************************************************************************)
(* C6                                                                      *)
(***************************************************************************)
UsagePrinted == "usage" \in SeqRange(stdout) \cup SeqRange(stderr)
NothingTouched ==
    ~dirMade /\ ~srcOpened /\ writes = <<>> /\ files = env.files0

Accepted(cl) == ~cl.help /\ cl.input # "absent"
GivenBg(cl) == IF cl.bg = "absent" THEN "transparent" ELSE cl.bg
UnparseableBgs == {"notacolor"}
BgMessage(str) == "Invalid --bg color: " \o str

\* C7: whatever the other arguments, a background color that cannot be
\* parsed aborts the run in the configuration-parsing step, with the
\* 'Invalid --bg color' message and non-zero status, before the source is
\* loaded and before the output directory or any file is created;
\* "transparent" in any case, valid names and valid hex never abort so.
C7_BadBackgroundAbortsFirst ==
    (pc # "idle" /\ Accepted(argv)) =>
        IF GivenBg(argv) \in UnparseableBgs
        THEN /\ NothingTouched
             /\ ~Running => (status >= 1
                             /\ stderr = <<BgMessage(GivenBg(argv))>>)
        ELSE BgMessage(GivenBg(argv)) \notin SeqRange(stderr)

(***************************************************************************)
(* C8                                                                      *)
(***************************************************************************)
ArchiveAsBefore ==
    /\ BundleName \notin SeqRange(writes)
    /\ (BundleName \in DOMAIN files) = (BundleName \in DOMAIN env.files0)
    /\ BundleName \in DOMAIN files =>
          files[BundleName] = env.files0[BundleName]

\* C8: with the archive flag on (the default when neither --zip nor
\* --no-zip is given) a completed run leaves one archive, icons_bundle.zip,
\* written after the last icon file, whose member names are the base names
\* of the files this run generated and no others, whatever the directory
\* held before; with the flag off the run never creates or modifies an
\* archive.
C8_OneArchiveOfThisRunsFiles ==
    (pc \notin {"idle", "parse_args"}) =>
        /\ argv.zip = <<>> => args.make_zip
        /\ (Completed /\ args.make_zip) =>
              /\ Len(SelectSeq(writes, LAMBDA n : n = BundleName)) = 1
              /\ writes[Len(writes)] = BundleName
              /\ files[BundleName].kind = "zip"
              /\ {m.name : m \in SeqRange(files[BundleName].members)}
                    = SeqRange(IconWrites)
              /\ stdout = <<Join(args.outdir, BundleName)>>
        /\ ~args.make_zip => ArchiveAsBefore

\* a default run over a directory that holds older icons and an older
\* archive: the new archive lists this run's file only
C8_Witness ==
    /\ Completed /\ argv.zip = <<>> /\ env.files0 = OldFiles
    /\ args.sizes = <<32>> /\ ~args.round
    /\ "icon64.png" \in DOMAIN files
    /\ files[BundleName].members[1].name = "icon32.png"
    /\ Len(files[BundleName].members) = 1

(***************************************************************************)
(* C9                                                                      *)
(***************************************************************************)
Failed == status >= 1
InArchiveStep == pc = "loop" /\ i > Len(args.sizes)

C9_State ==
    /\ stderr # <<>> => Failed
    /\ \A k \in 1..Len(resampled) :
          resampled[k] < 1 => (Failed /\ k = Len(resampled))
    /\ (Failed /\ pc \notin {"idle", "parse_args"}) =>
          /\ ~InArchiveStep => ArchiveAsBefore
          /\ \A n \in SeqRange(IconWrites) :
                \E k \in 1..i : k <= Len(args.sizes) /\
                    n \in {"icon" \o ToString(args.sizes[k]) \o ".png",
                           "icon" \o ToString(args.sizes[k]) \o "_round.png"}
          /\ \A k \in 1..Len(outputs) : Basename(outputs[k]) \in DOMAIN files

\* C9: every failure is fatal and nothing retries or recovers: once a step
\* has failed the run has a non-zero status and takes no further step, so no
\* icon of a later size is written, the archive is neither created nor
\* rewritten when the failure precedes the archive step, and the files
\* written for earlier sizes stay where they are.
C9_FailuresAreFatal == []C9_State /\ [][Running]_vars

\* the second size failed to save: the first icon is on disk, no archive
C9_Witness ==
    /\ Failed /\ pc = "loop" /\ i = 2 /\ args.make_zip
    /\ args.sizes = <<16, 32>>
    /\ writes = <<"icon16.png">>
    /\ "icon16.png" \in DOMAIN files /\ "icon32.png" \notin DOMAIN files
    /\ BundleName \notin DOMAIN files

(***************************************************************************)
(* C10                                                                     *)
(***************************************************************************)
\* C10: every size that reaches the resample-and-write loop is positive: no
\* size <= 0 from the command line is used to resample the master or to name
\* an output file.
C10_LoopSizesPositive ==
    /\ \A k \in 1..Len(resampled) : resampled[k] >= 1
    /\ \A k \in 1..Len(outputs) :
          \E n \in SeqRange(resampled) :
              n >= 1 /\ Basename(outputs[k]) \in AnnouncedNames(<<n>>, TRUE)

(***************************************************************************)
(* The three bitmap functions, each called once on an input drawn from a   *)
(* bounded set.  main() is not running in these specifications.            *)
(***************************************************************************)
MaxDim == 50
MaxSide == 5
NumSeeds == 12

ContainSizes == {1, 2, 13, 16, MasterSize}

MainIdle ==
    /\ pc = "idle"
    /\ argv = <<>>
    /\ env = <<>>
    /\ args = <<>>
    /\ dirMade = FALSE
    /\ srcOpened = FALSE
    /\ bg_rgb = <<>>
    /\ master = <<>>
    /\ i = 0
    /\ resampled = <<>>
    /\ outputs = <<>>
    /\ files = <<>>
    /\ writes = <<>>
    /\ stdout = <<>>
    /\ stderr = <<>>
    /\ status = -1

\* a square RGBA test bitmap: channel values and alpha vary with the seed
InputBitmap(side, seed) ==
    [p \in Pos(side, side) |->
        <<(3 * p[1] + seed) % 4, (p[2] + seed) % 4, seed % 4,
          CASE (p[1] + p[2] + seed) % 3 = 0 -> 255
            [] (p[1] + p[2] + seed) % 3 = 1 -> 128
            [] OTHER -> 0>>]

InitContain ==
    /\ arg \in [fn : {"square_contain"}, w : 1..MaxDim, h : 1..MaxDim,
                size : ContainSizes]
    /\ ret = <<>>
    /\ MainIdle

CallSquareContain ==
    /\ arg.fn = "square_contain"
    /\ ret = <<>>
    /\ ret' = <<SquareContain(arg.w, arg.h, arg.size)>>
    /\ UNCHANGED <<arg, mainVars>>

SpecContain == InitContain /\ [][CallSquareContain]_vars

InitCover ==
    /\ arg \in [fn : {"square_cover"}, w : 1..MaxDim, h : 1..MaxDim]
    /\ ret = <<>>
    /\ MainIdle

CallSquareCover ==
    /\ arg.fn = "square_cover"
    /\ ret = <<>>
    /\ ret' = <<SquareCover(arg.w, arg.h)>>
    /\ UNCHANGED <<arg, mainVars>>

SpecCover == InitCover /\ [][CallSquareCover]_vars

InitRound ==
    /\ \E side \in 1..MaxSide, seed \in 0..(NumSeeds - 1) :
          arg = [fn |-> "make_round", w |-> side, h |-> side,
                 im |-> InputBitmap(side, seed), seed |-> seed]
    /\ ret = <<>>
    /\ MainIdle

CallMakeRound ==
    /\ arg.fn = "make_round"
    /\ ret = <<>>
    /\ ret' = <<MakeRound(arg.im, arg.w, arg.h)>>
    /\ UNCHANGED <<arg, mainVars>>

SpecRound == InitRound /\ [][CallMakeRound]_vars

Abs(n) == IF n < 0 THEN -n ELSE n

(***************************************************************************)
(* C1                                                                      *)
(***************************************************************************)
\* C1: for every source with width >= 1 and height >= 1 and every size >= 1,
\* square_contain returns a size x size canvas on which the scaled source
\* (nw x nh) is fully visible and centred: nw >= 1, nh >= 1, the longer
\* scaled side equals size, the paste offset keeps the scaled source inside
\* the canvas, and opposite margins differ by at most one pixel.
C1_ContainFitsAndCentres ==
    (arg.fn = "square_contain" /\ ret # <<>>) =>
        LET r == ret[1]
        IN  /\ r.cw = arg.size /\ r.ch = arg.size
            /\ r.nw >= 1 /\ r.nh >= 1
            /\ (IF r.nw >= r.nh THEN r.nw ELSE r.nh) = arg.size
            /\ 0 <= r.x /\ r.x + r.nw <= arg.size
            /\ 0 <= r.y /\ r.y + r.nh <= arg.size
            /\ Abs(r.x - (arg.size - r.nw - r.x)) <= 1
            /\ Abs(r.y - (arg.size - r.nh - r.y)) <= 1

(***************************************************************************)
(* C2                                                                      *)
(***************************************************************************)
\* C2: for every source with width >= 1 and height >= 1, square_cover
\* returns a square of side min(width, height) taken from a crop box that
\* lies inside the source and is centred in it: the discarded margins on
\* opposite sides differ by at most one pixel and are 0 along the shorter
\* dimension.
C2_CoverIsCentredMinSquare ==
    (arg.fn = "square_cover" /\ ret # <<>>) =>
        LET r     == ret[1]
            side  == IF arg.w <= arg.h THEN arg.w ELSE arg.h
            left  == r.x0
            right == arg.w - r.x1
            top   == r.y0
            bot   == arg.h - r.y1
        IN  /\ r.w = side /\ r.h = side
            /\ r.x1 - r.x0 = side /\ r.y1 - r.y0 = side
            /\ left >= 0 /\ right >= 0 /\ top >= 0 /\ bot >= 0
            /\ Abs(left - right) <= 1 /\ Abs(top - bot) <= 1
            /\ (arg.w <= arg.h => left = 0 /\ right = 0)
            /\ (arg.h <= arg.w => top = 0 /\ bot = 0)

\* a 7 x 4 source was cropped: 3 columns are discarded, 1 left and 2 right
C2_Witness ==
    /\ arg.fn = "square_cover" /\ ret # <<>>
    /\ arg.w = 7 /\ arg.h = 4
    /\ ret[1].x0 = 1 /\ ret[1].x1 = 5 /\ ret[1].w = 4

(***************************************************************************)
(* C5                                                                      *)
(***************************************************************************)
\* the centre of pixel (x, y) lies in the circle inscribed in a w x w bitmap
InInscribedCircle(w, x, y) ==
    (2 * x + 1 - w) * (2 * x + 1 - w) + (2 * y + 1 - w) * (2 * y + 1 - w)
        <= w * w

\* C5: for every square RGBA bitmap, make_round returns a bitmap of the same
\* dimensions in which every pixel inside the circle inscribed in the
\* bitmap's bounds equals the input pixel in all four channels and every
\* pixel outside that circle has alpha 0; the input is not modified.
C5_RoundKeepsInsideClearsOutside ==
    (arg.fn = "make_round" /\ ret # <<>>) =>
        LET r == ret[1]
        IN  /\ r.w = arg.w /\ r.h = arg.h
            /\ DOMAIN r.px = Pos(arg.w, arg.h)
            /\ \A p \in Pos(arg.w, arg.h) :
                  IF InInscribedCircle(arg.w, p[1], p[2])
                  THEN r.px[p] = arg.im[p]
                  ELSE r.px[p][4] = 0
            /\ arg.im = InputBitmap(arg.w, arg.seed)

====
